---- MODULE Spec2Model ----
(***************************************************************************)
(* State-machine model of backend/app.py: one table of the market-maker    *)
(* card game, the connection manager, and the websocket sessions that      *)
(* drive them.                                                             *)
(*                                                                         *)
(* Granularity.  The server is one asyncio event loop, so code between two *)
(* suspension points runs atomically.  A message handler runs inside       *)
(* `async with table.lock`; the session-open code (lines 488-545) and the  *)
(* WebSocketDisconnect handler (lines 864-869) run outside it.  A handler  *)
(* is one action, except where it reads or writes the table again after    *)
(* awaiting sends or the settlement delay: the trade handler is split at   *)
(* the broadcasts of lines 601-603 (pc = "trade_sent") and at the delay of *)
(* line 619 (pc = "settled"), the join handler at the sends of lines       *)
(* 794-810 (pc = "join_sent").  While a handler is suspended there it      *)
(* keeps the lock, and only the lock-free code of other sessions can run.  *)
(*                                                                         *)
(* Prices, bids, asks and buy-ins are integers (float() of an integral     *)
(* value is exact).  Identities are integers: uuid4 is a counter of minted *)
(* identities 1, 2, ..., the provisional identity of session s is -s, and  *)
(* None is 0.  A card is its index 0..51 in fresh_deck().                  *)
(***************************************************************************)
EXTENDS Integers, Sequences, FiniteSets, TLC

\* ---- bounds of the model ------------------------------------------------
\* Sessions (websocket connections) that can be open at once.
MaxSess == 2
\* Specification Spec: identities minted by join, hands started, shuffles the
\* model draws from, free seats random.choice draws from, trades logged per
\* hand, quotes logged per hand, and the events of a behaviour: sessions
\* opened, leave/away/join_back messages handled and unseated identities
\* entering a hand's trade log, counted together.
MaxJoins == 2
MaxHands == 1
NumShuffles == 1
SeatChoices == 1
MaxTrades == 4
MaxQuotes == 2
MaxEvents == 3
\* Specification SpecDeep: a second hand and more events, on fewer inputs.
DeepHands == 2
DeepEvents == 5
DeepQuotes == 1
ArchiveHands == 103
ArchiveEvents == 110
SeatJoins == 9
SeatEvents == 2
SeatDrawChoices == 2
RotateJoins == 3
RotateHands == 3
RotateEvents == 4

\* ---- program constants ---------------------------------------------------
NumRanks == 13
NumSuits == 4
MaxSeats == 7
MaxNameLen == 20
MinBuyIn == 1
MaxBuyIn == 10000
max_history_hands == 100
RevealRounds == 3
SettleRound == 4
HoleCards == 2

NoPid == 0
TID == "T"
NoTotal == "None"
NoTime == "None"
LoopTime == "t"

Sess == 1 .. MaxSess
TmpPid(s) == 0 - s

\* ---- inputs ---------------------------------------------------------------
\* A name is a sequence of characters; LongName has 21 of them.
LongName == [i \in 1 .. (MaxNameLen + 1) |-> "a"]
Names == {<< >>, <<" ", "a">>, <<"B">>, LongName}
BuyIns == {0, 5}
Sides == {"buy", "sell"}
Prices == {30}
QuotePairs == {<<49, 51>>, <<51, 49>>}

\* The caps and input sets of a specification; `log` says whether the
\* delivered messages are recorded in `out`.
SpecCap ==
    [joins |-> MaxJoins, hands |-> MaxHands, shuffles |-> NumShuffles,
     seats |-> SeatChoices, events |-> MaxEvents, trades |-> MaxTrades,
     qcap |-> MaxQuotes, names |-> Names, buy_ins |-> BuyIns, sides |-> Sides,
     quotes |-> QuotePairs, log |-> FALSE]

\* Specification SpecMsg records the messages each step delivers.
MsgCap ==
    [joins |-> MaxJoins, hands |-> MaxHands, shuffles |-> NumShuffles,
     seats |-> SeatChoices, events |-> MaxEvents, trades |-> MaxTrades,
     qcap |-> MaxQuotes, names |-> {<<"a">>, <<"b">>}, buy_ins |-> {5},
     sides |-> {"buy"}, quotes |-> QuotePairs, log |-> TRUE]

DeepCap ==
    [joins |-> MaxJoins, hands |-> DeepHands, shuffles |-> NumShuffles,
     seats |-> SeatChoices, events |-> DeepEvents, trades |-> MaxTrades,
     qcap |-> DeepQuotes, names |-> {<<"a">>, <<"b">>}, buy_ins |-> {5},
     sides |-> {"sell"}, quotes |-> {<<49, 51>>}, log |-> FALSE]

\* Specification SpecArchive plays hands until the archive overflows.
ArchiveCap ==
    [joins |-> MaxJoins, hands |-> ArchiveHands, shuffles |-> NumShuffles,
     seats |-> SeatChoices, events |-> ArchiveEvents, trades |-> MaxTrades,
     qcap |-> MaxQuotes, names |-> {}, buy_ins |-> {}, sides |-> {"buy"},
     quotes |-> {}, log |-> FALSE]

\* Specification SpecSeats fills the table: the k-th accepted join uses the
\* name SeatName(k).
SeatName(k) == [i \in 1 .. k |-> "a"]

SeatCap ==
    [joins |-> SeatJoins, hands |-> SeatJoins, shuffles |-> NumShuffles,
     seats |-> SeatDrawChoices, events |-> SeatEvents, trades |-> MaxTrades,
     qcap |-> MaxQuotes, names |-> {}, buy_ins |-> {5}, sides |-> {},
     quotes |-> {}, log |-> TRUE]

\* Specification SpecRotate seats three players and plays a hand with them.
RotateCap ==
    [joins |-> RotateJoins, hands |-> RotateHands, shuffles |-> NumShuffles,
     seats |-> SeatChoices, events |-> RotateEvents, trades |-> MaxTrades,
     qcap |-> MaxQuotes, names |-> {}, buy_ins |-> {5}, sides |-> {"sell"},
     quotes |-> {}, log |-> FALSE]

\* ---- card helpers (lines 10-22) -------------------------------------------
DeckSize == NumRanks * NumSuits

fresh_deck == [i \in 1 .. DeckSize |-> i - 1]

card_value(c) == (c \div NumSuits) + 1

\* random.shuffle: one of NumShuffles permutations of the fresh deck, chosen
\* nondeterministically where the code shuffles.
ShuffleStep(k) == 2 * k - 1

Shuffle(k) == [i \in 1 .. DeckSize |->
                 fresh_deck[(((i - 1) * ShuffleStep(k) + 7 * k) % DeckSize) + 1]]

\* ---- generic helpers ------------------------------------------------------
Restrict(f, S) == [x \in S |-> f[x]]

RECURSIVE SortedSeq(_)
SortedSeq(S) ==
    IF S = {} THEN << >>
    ELSE LET m == CHOOSE x \in S : \A y \in S : x <= y
         IN <<m>> \o SortedSeq(S \ {m})

RECURSIVE SeqSum(_)
SeqSum(q) == IF q = << >> THEN 0 ELSE Head(q) + SeqSum(Tail(q))

\* list.remove(x): drops the first occurrence.
RECURSIVE ListRemove(_, _)
ListRemove(q, x) ==
    IF q = << >> THEN << >>
    ELSE IF Head(q) = x THEN Tail(q)
    ELSE <<Head(q)>> \o ListRemove(Tail(q), x)

InList(q, x) == \E i \in DOMAIN q : q[i] = x

\* str.lower and str.strip on the model's alphabet.
LowerChar(ch) == IF ch = "A" THEN "a" ELSE IF ch = "B" THEN "b" ELSE ch

Lower(n) == [i \in DOMAIN n |-> LowerChar(n[i])]

RECURSIVE LStrip(_)
LStrip(n) == IF n # << >> /\ Head(n) = " " THEN LStrip(Tail(n)) ELSE n

RECURSIVE RStrip(_)
RStrip(n) ==
    IF n # << >> /\ n[Len(n)] = " " THEN RStrip(SubSeq(n, 1, Len(n) - 1)) ELSE n

Strip(n) == RStrip(LStrip(n))

VARIABLES
    players,        \* Table.players: pid -> Player, in insertion (= pid) order
    left_players,   \* Table.left_players
    seat_order,     \* Table.seat_order
    maker_idx,      \* Table.maker_idx (0-based)
    deck,           \* Table.deck; pop() takes the last element
    community,      \* Table.community
    round_num,      \* Table.round_num
    trades,         \* Table.trades
    quotes,         \* Table.quotes
    round_trades,   \* Table.round_trades
    hand_number,    \* Table.hand_number
    game_history,   \* Table.game_history
    websockets,     \* ConnectionManager.websockets: pid -> session transport
    player_table,   \* ConnectionManager.player_table: pid -> tid
    sess,           \* per session: st (closed/open/dead) and current_pid
    lock,           \* Table.lock: 0 free, else the session whose task holds it
    pc,             \* where the lock holder is suspended
    next_pid,       \* the next identity uuid4 mints
    out,            \* the messages delivered by the last step
    complete_at_record, \* history: the round-complete test right after the
                        \* trade of the suspended trade handler was recorded
    events,         \* sessions opened, leave/away/join_back messages handled
                    \* and unseated identities entered in a trade log so far
    cap             \* the caps and input sets of the specification; constant

tableVars == <<players, left_players, seat_order, maker_idx, deck, community,
               round_num, trades, quotes, round_trades, hand_number,
               game_history>>

regVars == <<websockets, player_table>>

vars == <<players, left_players, seat_order, maker_idx, deck, community,
          round_num, trades, quotes, round_trades, hand_number, game_history,
          websockets, player_table, sess, lock, pc, next_pid, out,
          complete_at_record, events, cap>>


\* ---- Player (lines 27-52) --------------------------------------------------
NewPlayer(pid, name, seat, stack, buy_in) ==
    [pid |-> pid, name |-> name, seat |-> seat, stack |-> stack,
     buy_in |-> buy_in, pnl |-> 0, cards |-> << >>, status |-> "active",
     last_seen |-> NoTime]

\* ---- Table helpers ----------------------------------------------------------
\* Table.maker_pid (lines 143-146)
MakerPid(so, mi) == IF so = << >> THEN NoPid ELSE so[mi + 1]

maker_pid == MakerPid(seat_order, maker_idx)

CardSum(cs) == SeqSum([i \in DOMAIN cs |-> card_value(cs[i])])

\* Table.evaluate_total (lines 221-225)
EvaluateTotal(P, comm) ==
    LET order == SortedSeq(DOMAIN P)
    IN CardSum(comm) + SeqSum([i \in DOMAIN order |-> CardSum(P[order[i]].cards)])

evaluate_total == EvaluateTotal(players, community)

\* Table.all_players_traded_this_round (lines 268-276)
AllTraded(P, mk, rt) ==
    LET active_players == {p \in DOMAIN P :
            P[p].status \in {"active", "pending_away", "pending_leaving"}}
        non_maker_players == {p \in active_players : p # mk}
        current_round_trades == {i \in DOMAIN rt : rt[i] \in non_maker_players}
    IN Cardinality(current_round_trades) >= Cardinality(non_maker_players)

all_players_traded_this_round == AllTraded(players, maker_pid, round_trades)

\* Table.rotate_maker (lines 215-217)
RotateMaker(so, mi) == IF so # << >> THEN (mi + 1) % Len(so) ELSE mi

\* A next_round that reveals a card whatever the round.
NextRoundAlwaysReveals(comm, d, rn) ==
    [community |-> Append(comm, d[Len(d)]),
     deck |-> SubSeq(d, 1, Len(d) - 1),
     round_num |-> rn + 1,
     round_trades |-> << >>]

\* An advance that adds two to the round.
NextRoundByTwo(comm, d, rn) ==
    [community |-> IF rn < RevealRounds THEN Append(comm, d[Len(d)]) ELSE comm,
     deck |-> IF rn < RevealRounds THEN SubSeq(d, 1, Len(d) - 1) ELSE d,
     round_num |-> rn + 2,
     round_trades |-> << >>]

\* Table.next_round (lines 209-213): [community, deck, round_num, round_trades]
NextRound(comm, d, rn) ==
    [community |-> IF rn < RevealRounds THEN Append(comm, d[Len(d)]) ELSE comm,
     deck |-> IF rn < RevealRounds THEN SubSeq(d, 1, Len(d) - 1) ELSE d,
     round_num |-> rn + 1,
     round_trades |-> << >>]

\* Table.settle, the loop over the trades (lines 234-253): the players and the
\* maker's accumulated pnl after trades i..Len(trs).
RECURSIVE SettleTrades(_, _, _, _, _)
SettleTrades(P, trs, i, total, maker_pnl) ==
    IF i > Len(trs) THEN [players |-> P, maker_pnl |-> maker_pnl]
    ELSE LET tr == trs[i] IN
         IF tr.pid \notin DOMAIN P
         THEN SettleTrades(P, trs, i + 1, total, maker_pnl)
         ELSE LET diff == total - tr.price
                  pnl == IF tr.side = "buy" THEN diff ELSE 0 - diff
                  stack == P[tr.pid].stack + pnl
                  P1 == [P EXCEPT ![tr.pid].pnl = @ + pnl,
                                  ![tr.pid].stack = stack,
                                  ![tr.pid].status =
                                      IF stack < 0 THEN "eliminated" ELSE @]
              IN SettleTrades(P1, trs, i + 1, total, maker_pnl - pnl)

\* A settlement that leaves out the maker's aggregate adjustment.
SettleWithoutMaker(P, comm, trs, mk) ==
    SettleTrades(P, trs, 1, EvaluateTotal(P, comm), 0).players

\* Table.settle (lines 227-266): the players after settlement.
Settle(P, comm, trs, mk) ==
    LET total == EvaluateTotal(P, comm)
        r == SettleTrades(P, trs, 1, total, 0)
        P1 == r.players
    IN IF mk # NoPid /\ mk \in DOMAIN P1
       THEN LET stack == P1[mk].stack + r.maker_pnl
            IN [P1 EXCEPT ![mk].pnl = @ + r.maker_pnl,
                          ![mk].stack = stack,
                          ![mk].status = IF stack < 0 THEN "eliminated" ELSE @]
       ELSE P1

\* A maker index that is never adjusted.
KeepMakerIdx(so, mi) == mi

\* "Adjust maker index if needed" (lines 190-191, 690-691).
AdjustMakerIdx(so, mi) == IF so # << >> /\ mi >= Len(so) THEN 0 ELSE mi

\* Table.new_hand, removal of the leaving players (lines 185-192):
\* [seat_order, maker_idx] after removing leaving[i..].
RECURSIVE RemoveLeaving(_, _, _, _)
RemoveLeaving(so, mi, leaving, i) ==
    IF i > Len(leaving) THEN [seat_order |-> so, maker_idx |-> mi]
    ELSE LET so1 == IF InList(so, leaving[i]) THEN ListRemove(so, leaving[i])
                    ELSE so
             mi1 == AdjustMakerIdx(so1, mi)
         IN RemoveLeaving(so1, mi1, leaving, i + 1)

\* An archive that drops the newest record when it is over the cap.
ArchiveHandDropsNewest(P, so, mi) ==
    IF trades # << >> \/ quotes # << >>
    THEN LET hand_record ==
                 [hand_number |-> hand_number,
                  final_total |-> IF round_num >= SettleRound
                                  THEN EvaluateTotal(P, community) ELSE NoTotal,
                  maker |-> MakerPid(so, mi)]
             h == Append(game_history, hand_record)
         IN IF Len(h) > max_history_hands THEN game_history ELSE h
    ELSE game_history

\* Table.new_hand, the archive of the finished hand (lines 152-165).  A hand
\* record keeps the hand number, the settlement total and the maker; the copies
\* of the trade and quote logs and the timestamp are written only.
ArchiveHand(P, so, mi) ==
    IF trades # << >> \/ quotes # << >>
    THEN LET hand_record ==
                 [hand_number |-> hand_number,
                  final_total |-> IF round_num >= SettleRound
                                  THEN EvaluateTotal(P, community) ELSE NoTotal,
                  maker |-> MakerPid(so, mi)]
             h == Append(game_history, hand_record)
         IN IF Len(h) > max_history_hands THEN Tail(h) ELSE h
    ELSE game_history

\* A resolution that leaves pending_away as it is.
ResolvedStatusKeepsPendingAway(st) ==
    IF st = "pending_leaving" THEN "left" ELSE st

\* A resolution that leaves every status as it is.
ResolvedStatusKeepsAll(st) == st

\* Table.new_hand, the status a player has after the pending statuses are
\* processed (lines 171-180).
ResolvedStatus(st) ==
    IF st = "pending_away" THEN "away"
    ELSE IF st = "pending_leaving" THEN "left"
    ELSE st

\* Table.new_hand (lines 150-207) on players P, archive L, rotation so/mi, with
\* shuffle k: every field it writes, and the list it returns.
NewHand(P, L, so, mi, k) ==
    LET order == SortedSeq(DOMAIN P)
        IsLeaving(p) == P[p].status = "pending_leaving"
        Stays(p) == ~IsLeaving(p)
        leaving == SelectSeq(order, IsLeaving)
        staying == SelectSeq(order, Stays)
        P1 == [p \in DOMAIN P |-> [P[p] EXCEPT !.status = ResolvedStatus(@)]]
        gone == {leaving[i] : i \in DOMAIN leaving}
        L1 == [p \in DOMAIN L \cup gone |-> IF p \in gone THEN P1[p] ELSE L[p]]
        rm == RemoveLeaving(so, mi, leaving, 1)
        d == Shuffle(k)
        Pos(p) == CHOOSE i \in DOMAIN staying : staying[i] = p
        P2 == [p \in DOMAIN P \ gone |->
                 [P1[p] EXCEPT !.cards = <<d[DeckSize - HoleCards * (Pos(p) - 1)],
                                           d[DeckSize - HoleCards * (Pos(p) - 1) - 1]>>]]
    IN [players |-> P2,
        left_players |-> L1,
        seat_order |-> rm.seat_order,
        maker_idx |-> rm.maker_idx,
        deck |-> SubSeq(d, 1, DeckSize - HoleCards * Len(staying)),
        game_history |-> ArchiveHand(P, so, mi),
        hand_number |-> hand_number + 1,
        leaving_players |-> [i \in DOMAIN leaving |->
                               [pid |-> leaving[i], name |-> P[leaving[i]].name,
                                seat |-> P[leaving[i]].seat]]]

\* ---- ConnectionManager (lines 348-424) -------------------------------------
\* A registry R is [ws |-> websockets, pt |-> player_table]; A is the set of
\* sessions whose transport is open.  A send to any other transport raises.
Registry == [ws |-> websockets, pt |-> player_table]

Live == {w \in Sess : sess[w].st = "open"}

\* A delivered message: its type, the identity and transport it was sent to, the
\* players whose hidden cards it carries, its detail/event/error text, and the
\* player its payload names.
Msg(type, to, w, reveal, detail, about) ==
    [type |-> type, to |-> to, ws |-> w, reveal |-> reveal, detail |-> detail,
     about |-> about]

\* A disconnect that removes no binding.
DisconnectNothing(R, pid) == R

\* ConnectionManager.disconnect (lines 358-360)
Disconnect(R, pid) ==
    [ws |-> Restrict(R.ws, DOMAIN R.ws \ {pid}),
     pt |-> Restrict(R.pt, DOMAIN R.pt \ {pid})]

\* ConnectionManager.connect (lines 353-356)
Connect(R, pid, w) ==
    [ws |-> [p \in DOMAIN R.ws \cup {pid} |-> IF p = pid THEN w ELSE R.ws[p]],
     pt |-> [p \in DOMAIN R.pt \cup {pid} |-> IF p = pid THEN TID ELSE R.pt[p]]]

\* ConnectionManager.update_player_id (lines 362-367)
UpdatePlayerId(R, old_pid, new_pid) ==
    [ws |-> IF old_pid \in DOMAIN R.ws
            THEN [p \in (DOMAIN R.ws \ {old_pid}) \cup {new_pid} |->
                    IF p = new_pid THEN R.ws[old_pid] ELSE R.ws[p]]
            ELSE R.ws,
     pt |-> IF old_pid \in DOMAIN R.pt
            THEN [p \in (DOMAIN R.pt \ {old_pid}) \cup {new_pid} |->
                    IF p = new_pid THEN R.pt[old_pid] ELSE R.pt[p]]
            ELSE R.pt]

\* ConnectionManager.send_personal (lines 369-376): the registry afterwards and
\* the message delivered.
SendPersonalReg(R, A, pid) ==
    IF pid \in DOMAIN R.ws /\ R.ws[pid] \notin A THEN Disconnect(R, pid) ELSE R

SendPersonalOut(R, A, pid, type, reveal, detail, about) ==
    IF pid \in DOMAIN R.ws /\ R.ws[pid] \in A
    THEN {Msg(type, pid, R.ws[pid], reveal, detail, about)}
    ELSE {}

\* ConnectionManager.broadcast_table (lines 378-390)
BroadcastTableReg(R, A, P) ==
    LET disconnected == {p \in DOMAIN P \cap DOMAIN R.ws : R.ws[p] \notin A}
    IN [ws |-> Restrict(R.ws, DOMAIN R.ws \ disconnected),
        pt |-> Restrict(R.pt, DOMAIN R.pt \ disconnected)]

BroadcastTableOut(R, A, P, type, detail, about) ==
    {Msg(type, p, R.ws[p], {}, detail, about) :
        p \in {q \in DOMAIN P \cap DOMAIN R.ws : R.ws[q] \in A}}

\* A snapshot that populates the cards of every player.
RevealAll(P, pid) == DOMAIN P

\* The players whose cards a snapshot for identity pid populates:
\* to_public(reveal_cards=(p.pid == reveal_pid)) (lines 399-408, 502-511).
RevealSet(P, pid) ==
    LET reveal_pid == IF pid \in DOMAIN P THEN pid ELSE NoPid
    IN {p \in DOMAIN P : P[p].pid = reveal_pid}

\* ConnectionManager.broadcast_all_states (lines 392-424); a failed send is
\* passed over.
BroadcastAllStatesOut(R, A, P) ==
    {Msg("state", p, R.ws[p], RevealSet(P, p), "", NoPid) :
        p \in {q \in DOMAIN R.ws :
                 q \in DOMAIN R.pt /\ R.pt[q] = TID /\ R.ws[q] \in A}}

\* websocket_endpoint.push_state (lines 500-518)
PushStateOut(R, A, P, cp) ==
    SendPersonalOut(R, A, cp, "state", RevealSet(P, cp), "", NoPid)

InitWith(c) ==
    /\ cap = c
    /\ players = << >>
    /\ left_players = << >>
    /\ seat_order = << >>
    /\ maker_idx = 0
    /\ \E k \in 1 .. c.shuffles : deck = Shuffle(k)
    /\ community = << >>
    /\ round_num = 0
    /\ trades = << >>
    /\ quotes = << >>
    /\ round_trades = << >>
    /\ hand_number = 0
    /\ game_history = << >>
    /\ websockets = << >>
    /\ player_table = << >>
    /\ sess = [s \in Sess |-> [st |-> "closed", pid |-> TmpPid(s)]]
    /\ lock = 0
    /\ pc = "idle"
    /\ next_pid = 1
    /\ out = {}
    /\ complete_at_record = FALSE
    /\ events = 0

\* ---- websocket_endpoint (lines 486-869) ------------------------------------
Deliver(R, msgs) ==
    /\ websockets' = R.ws
    /\ player_table' = R.pt
    /\ out' = IF cap.log THEN msgs ELSE {}
    /\ cap' = cap

\* The task of session s is at receive_json and the table's lock is free.
Ready(s) == sess[s].st = "open" /\ lock = 0

\* A mid-hand test that looks at the round only.
MidHandRoundOnly == round_num > 0

\* The mid-hand test of the leave and away handlers (lines 656, 823).
MidHand == round_num > 0 \/ (quotes # << >> /\ Len(quotes) > 0)

\* Session open (lines 488-545): connect, then the minimal snapshot or the
\* reconnection, outside the lock.
SessionOpen(s, pid) ==
    /\ sess[s].st # "open"
    /\ \A p \in DOMAIN websockets : websockets[p] # s
    /\ events < cap.events
    /\ s <= events + 1
    /\ events' = events + 1
    /\ LET R1 == Connect(Registry, pid, s)
           A == Live \cup {s}
       IN IF pid \notin DOMAIN players
          THEN /\ UNCHANGED tableVars
               /\ Deliver(SendPersonalReg(R1, A, pid),
                          SendPersonalOut(R1, A, pid, "state", {}, "", NoPid))
          ELSE LET P1 == [players EXCEPT
                            ![pid].last_seen = NoTime,
                            ![pid].status = IF @ \notin {"away", "leaving"}
                                            THEN "active" ELSE @]
               IN /\ players' = P1
                  /\ UNCHANGED <<left_players, seat_order, maker_idx, deck,
                                 community, round_num, trades, quotes,
                                 round_trades, hand_number, game_history>>
                  /\ Deliver(SendPersonalReg(R1, A, pid),
                             PushStateOut(R1, A, P1, pid)
                                 \cup BroadcastAllStatesOut(R1, A, P1))
    /\ sess' = [sess EXCEPT ![s] = [st |-> "open", pid |-> pid]]
    /\ UNCHANGED <<lock, pc, next_pid, complete_at_record>>

\* WebSocketDisconnect at receive_json (lines 864-869), outside the lock.
SessionClose(s) ==
    /\ sess[s].st = "open"
    /\ lock # s
    /\ LET cp == sess[s].pid IN
       /\ Deliver(Disconnect(Registry, cp), {})
       /\ players' = IF cp \in DOMAIN players
                     THEN [players EXCEPT ![cp].last_seen = LoopTime]
                     ELSE players
    /\ sess' = [sess EXCEPT ![s] = [st |-> "closed", pid |-> TmpPid(s)]]
    /\ UNCHANGED <<left_players, seat_order, maker_idx, deck, community,
                   round_num, trades, quotes, round_trades, hand_number,
                   game_history, lock, pc, next_pid, complete_at_record, events>>

\* An error reply followed by `continue`: nothing else runs, push_state included.
Reject(s, type, detail) ==
    /\ Deliver(SendPersonalReg(Registry, Live, sess[s].pid),
               SendPersonalOut(Registry, Live, sess[s].pid, type, {}, detail, NoPid))
    /\ UNCHANGED <<tableVars, sess, lock, pc, next_pid, complete_at_record, events>>

\* The end of a handler that mutated nothing but P (the players after it):
\* the sends it made left registry R and messages msgs; the lock is released
\* and push_state runs (line 862).
Finish(s, R, P, msgs) ==
    /\ Deliver(SendPersonalReg(R, Live, sess[s].pid),
               msgs \cup PushStateOut(R, Live, P, sess[s].pid))
    /\ lock' = 0
    /\ pc' = "idle"
    /\ complete_at_record' = FALSE

\* A duplicate test that never finds a quote.
NoCurrentRoundQuote(qs, rn) == FALSE

\* has_current_round_quote (lines 560-563)
HasCurrentRoundQuote(qs, rn) == \E i \in DOMAIN qs : qs[i].round = rn

\* action "quote" (lines 554-581)
Quote(s, bid, ask) ==
    /\ Ready(s)
    /\ LET cp == sess[s].pid
           has_current_round_quote == HasCurrentRoundQuote(quotes, round_num)
       IN IF cp # maker_pid
          THEN Reject(s, "error", "Only maker can quote")
          ELSE IF has_current_round_quote
          THEN Reject(s, "error", "You have already set a market price for this round")
          ELSE IF ask <= bid
          THEN Reject(s, "error", "Ask must be higher than bid")
          ELSE LET R1 == BroadcastTableReg(Registry, Live, players) IN
               /\ Len(quotes) < cap.qcap
               /\ quotes' = Append(quotes, [bid |-> bid, ask |-> ask,
                                            round |-> round_num, maker |-> cp])
               /\ Finish(s, R1, players,
                         BroadcastTableOut(Registry, Live, players, "quote", "", cp)
                             \cup BroadcastAllStatesOut(R1, Live, players))
               /\ UNCHANGED <<players, left_players, seat_order, maker_idx, deck,
                              community, round_num, trades, round_trades,
                              hand_number, game_history, sess, next_pid, events>>

\* A maker test that lets everybody trade.
TraderIsNeverMaker(cp, mk) == FALSE

\* current_pid == table.maker_pid() (line 585)
TraderIsMaker(cp, mk) == cp = mk

\* A duplicate test that never finds a trade.
NeverTradedThisRound(rt, cp) == FALSE

\* current_pid in table.round_trades (line 589)
TradedThisRound(rt, cp) == InList(rt, cp)

\* An identity that is not seated and has no trade in the hand's log yet.
NewUnseatedTrader(cp) ==
    cp \notin DOMAIN players /\ \A i \in DOMAIN trades : trades[i].pid # cp

\* action "trade", up to the broadcasts of lines 601-603 (lines 583-603)
Trade(s, side, price) ==
    /\ Ready(s)
    /\ LET cp == sess[s].pid IN
       IF TraderIsMaker(cp, maker_pid)
       THEN Reject(s, "error", "Market maker cannot trade")
       ELSE IF TradedThisRound(round_trades, cp)
       THEN Reject(s, "error", "You have already traded this round")
       ELSE LET R1 == BroadcastTableReg(Registry, Live, players) IN
            /\ Len(trades) < cap.trades
            /\ ~NewUnseatedTrader(cp) \/ events < cap.events
            /\ events' = IF NewUnseatedTrader(cp) THEN events + 1 ELSE events
            /\ trades' = Append(trades, [pid |-> cp, side |-> side,
                                         price |-> price, round |-> round_num])
            /\ round_trades' = Append(round_trades, cp)
            /\ Deliver(R1, BroadcastTableOut(Registry, Live, players, "trade", side, cp)
                               \cup BroadcastAllStatesOut(R1, Live, players))
            /\ lock' = s
            /\ pc' = "trade_sent"
            /\ complete_at_record' =
                   AllTraded(players, maker_pid, Append(round_trades, cp))
            /\ UNCHANGED <<players, left_players, seat_order, maker_idx, deck,
                           community, round_num, quotes, hand_number,
                           game_history, sess, next_pid>>

\* action "trade", from the round-complete test to the delay or the end of the
\* handler (lines 605-619, 644-650, 862)
TradeCheck(s) ==
    /\ lock = s
    /\ pc = "trade_sent"
    /\ IF all_players_traded_this_round /\ round_num < SettleRound
       THEN LET nr == NextRound(community, deck, round_num) IN
            /\ community' = nr.community
            /\ deck' = nr.deck
            /\ round_num' = nr.round_num
            /\ round_trades' = nr.round_trades
            /\ IF nr.round_num = SettleRound
               THEN LET P1 == Settle(players, nr.community, trades, maker_pid)
                        R1 == BroadcastTableReg(Registry, Live, P1)
                    IN /\ players' = P1
                       /\ Deliver(R1, BroadcastAllStatesOut(Registry, Live, P1)
                                     \cup BroadcastTableOut(Registry, Live, P1,
                                              "hand_complete", "", NoPid))
                       /\ pc' = "settled"
                       /\ complete_at_record' = FALSE
                       /\ UNCHANGED lock
               ELSE LET R1 == BroadcastTableReg(Registry, Live, players) IN
                    /\ Finish(s, R1, players,
                              BroadcastTableOut(Registry, Live, players, "round", "", NoPid)
                                  \cup BroadcastAllStatesOut(R1, Live, players))
                    /\ UNCHANGED players
            /\ UNCHANGED <<left_players, seat_order, maker_idx, trades, quotes,
                           hand_number, game_history, sess, next_pid, events>>
       ELSE IF all_players_traded_this_round
       THEN LET R1 == BroadcastTableReg(Registry, Live, players) IN
            /\ Finish(s, R1, players,
                      BroadcastTableOut(Registry, Live, players, "round", "", NoPid)
                          \cup BroadcastAllStatesOut(R1, Live, players))
            /\ UNCHANGED <<tableVars, sess, next_pid, events>>
       ELSE /\ Finish(s, Registry, players, {})
            /\ UNCHANGED <<tableVars, sess, next_pid, events>>

\* The events for the players new_hand removed (lines 625-642): the registry and
\* the messages after the sends for leaving[i..].
RECURSIVE LeavingSends(_, _, _, _, _, _)
LeavingSends(R, A, P, leaving, i, msgs) ==
    IF i > Len(leaving) THEN [reg |-> R, msgs |-> msgs]
    ELSE LET lp == leaving[i]
             R1 == SendPersonalReg(R, A, lp.pid)
             R2 == BroadcastTableReg(R1, A, P)
         IN LeavingSends(R2, A, P, leaving, i + 1,
                msgs \cup SendPersonalOut(R, A, lp.pid, "player_event", {}, "you_left", NoPid)
                     \cup BroadcastTableOut(R1, A, P, "player_event", "player_left", lp.pid))

\* action "trade", after the delay (lines 621-650, 862)
AfterDelay(s, k) ==
    /\ lock = s
    /\ pc = "settled"
    /\ hand_number < cap.hands
    /\ LET nh == NewHand(players, left_players, seat_order,
                         RotateMaker(seat_order, maker_idx), k)
           ls == LeavingSends(Registry, Live, nh.players, nh.leaving_players, 1, {})
           R1 == BroadcastTableReg(ls.reg, Live, nh.players)
       IN /\ players' = nh.players
          /\ left_players' = nh.left_players
          /\ seat_order' = nh.seat_order
          /\ maker_idx' = nh.maker_idx
          /\ deck' = nh.deck
          /\ game_history' = nh.game_history
          /\ hand_number' = nh.hand_number
          /\ community' = << >>
          /\ round_num' = 0
          /\ trades' = << >>
          /\ quotes' = << >>
          /\ round_trades' = << >>
          /\ Finish(s, R1, nh.players,
                    ls.msgs
                        \cup BroadcastTableOut(ls.reg, Live, nh.players, "round", "", NoPid)
                        \cup BroadcastAllStatesOut(R1, Live, nh.players))
    /\ UNCHANGED <<sess, next_pid, events>>

\* action "leave" (lines 654-712) from a seated identity
Leave(s) ==
    /\ Ready(s)
    /\ sess[s].pid \in DOMAIN players
    /\ events < cap.events
    /\ events' = events + 1
    /\ LET cp == sess[s].pid IN
       IF MidHand
       THEN LET P1 == [players EXCEPT ![cp].status = "pending_leaving"]
                R1 == SendPersonalReg(Registry, Live, cp)
                R2 == BroadcastTableReg(R1, Live, P1)
            IN /\ players' = P1
               /\ Finish(s, R2, P1,
                         SendPersonalOut(Registry, Live, cp, "player_event", {},
                                         "you_pending_leave", NoPid)
                             \cup BroadcastTableOut(R1, Live, P1, "player_event",
                                                    "pending_leave", cp)
                             \cup BroadcastAllStatesOut(R2, Live, P1))
               /\ UNCHANGED <<left_players, seat_order, maker_idx>>
       ELSE LET player == [players[cp] EXCEPT !.status = "left"]
                L1 == [p \in DOMAIN left_players \cup {cp} |->
                         IF p = cp THEN player ELSE left_players[p]]
                P1 == Restrict(players, DOMAIN players \ {cp})
                so1 == IF InList(seat_order, cp) THEN ListRemove(seat_order, cp)
                       ELSE seat_order
                R1 == SendPersonalReg(Registry, Live, cp)
                R2 == BroadcastTableReg(R1, Live, P1)
            IN /\ players' = P1
               /\ left_players' = L1
               /\ seat_order' = so1
               /\ maker_idx' = AdjustMakerIdx(so1, maker_idx)
               /\ Finish(s, R2, P1,
                         SendPersonalOut(Registry, Live, cp, "player_event", {},
                                         "you_left", NoPid)
                             \cup BroadcastTableOut(R1, Live, P1, "player_event",
                                                    "player_left", cp)
                             \cup BroadcastAllStatesOut(R2, Live, P1))
    /\ UNCHANGED <<deck, community, round_num, trades, quotes, round_trades,
                   hand_number, game_history, sess, next_pid>>

\* action "leave" or "away" from an identity that is not seated:
\* table.players[current_pid] raises KeyError (lines 657, 677, 824, 831); the
\* lock is released, the task ends and manager.disconnect is not called.
HandlerCrash(s) ==
    /\ Ready(s)
    /\ sess[s].pid \notin DOMAIN players
    /\ events < cap.events
    /\ events' = events + 1
    /\ sess' = [sess EXCEPT ![s] = [st |-> "dead", pid |-> TmpPid(s)]]
    /\ out' = {}
    /\ cap' = cap
    /\ UNCHANGED <<tableVars, regVars, lock, pc, next_pid, complete_at_record>>

\* A seat draw that returns seat 1 whatever is free.
SeatDrawsFirstSeat(available_seats) == {1}

\* The seats random.choice may return (line 775): the model draws from the
\* first cap.seats free seats.
SeatDraws(available_seats) ==
    {available_seats[i] : i \in 1 .. (IF Len(available_seats) < cap.seats
                                      THEN Len(available_seats) ELSE cap.seats)}

\* action "join", up to the sends of lines 794-810 (lines 714-810)
Join(s, raw_name, buy_in) ==
    /\ Ready(s)
    /\ LET cp == sess[s].pid
           name == Strip(raw_name)
           seated == {p \in DOMAIN players : players[p].status # "left"}
           name_taken == \E p \in DOMAIN players :
                             /\ Lower(players[p].name) = Lower(name)
                             /\ players[p].status # "left"
           occupied_seats == {players[p].seat : p \in seated}
           available_seats == SortedSeq((1 .. MaxSeats) \ occupied_seats)
       IN IF name = << >>
          THEN Reject(s, "join_error", "Name is required")
          ELSE IF Len(name) > MaxNameLen
          THEN Reject(s, "join_error", "Name must be 20 characters or less")
          ELSE IF buy_in < MinBuyIn \/ buy_in > MaxBuyIn
          THEN Reject(s, "join_error", "Buy-in must be between $1 and $10,000")
          ELSE IF name_taken
          THEN Reject(s, "join_error", "Player name is already taken. Please choose a different name.")
          ELSE IF Cardinality(seated) >= MaxSeats
          THEN Reject(s, "join_error", "Table is full")
          ELSE IF available_seats = << >>
          THEN Reject(s, "join_error", "No available seats")
          ELSE \E seat \in SeatDraws(available_seats) :
               LET new_pid == next_pid
                   P1 == [p \in DOMAIN players \cup {new_pid} |->
                            IF p = new_pid
                            THEN NewPlayer(new_pid, name, seat, buy_in, buy_in)
                            ELSE players[p]]
                   R1 == UpdatePlayerId(Registry, cp, new_pid)
                   R2 == SendPersonalReg(R1, Live, new_pid)
                   R3 == BroadcastTableReg(R2, Live, P1)
               IN /\ next_pid <= cap.joins
                  /\ next_pid' = next_pid + 1
                  /\ players' = P1
                  /\ seat_order' = IF ~InList(seat_order, new_pid)
                                   THEN Append(seat_order, new_pid)
                                   ELSE seat_order
                  /\ sess' = [sess EXCEPT ![s].pid = new_pid]
                  /\ Deliver(R3,
                         SendPersonalOut(R1, Live, new_pid, "join_success",
                                         {new_pid}, "", new_pid)
                             \cup BroadcastTableOut(R2, Live, P1, "player_event",
                                                    "player_joined", new_pid))
                  /\ lock' = s
                  /\ pc' = "join_sent"
                  /\ UNCHANGED <<left_players, maker_idx, deck, community,
                                 round_num, trades, quotes, round_trades,
                                 hand_number, game_history, complete_at_record,
                                 events>>

\* An auto-start test that is satisfied by one active player.
AutoStartsWithOne(P, rn, comm) ==
    LET active_players == {p \in DOMAIN P : P[p].status = "active"}
    IN Cardinality(active_players) >= 1 /\ rn = 0 /\ comm = << >>

\* The auto-start test of the join handler (lines 812-814).
AutoStarts(P, rn, comm) ==
    LET active_players == {p \in DOMAIN P : P[p].status = "active"}
    IN Cardinality(active_players) >= 2 /\ rn = 0 /\ comm = << >>

\* action "join", from the auto-start test to the end of the handler
\* (lines 812-819, 862)
JoinStart(s, k) ==
    /\ lock = s
    /\ pc = "join_sent"
    /\ IF AutoStarts(players, round_num, community)
          THEN LET nh == NewHand(players, left_players, seat_order, maker_idx, k)
               IN /\ hand_number < cap.hands
                  /\ players' = nh.players
                  /\ left_players' = nh.left_players
                  /\ seat_order' = nh.seat_order
                  /\ maker_idx' = nh.maker_idx
                  /\ deck' = nh.deck
                  /\ game_history' = nh.game_history
                  /\ hand_number' = nh.hand_number
                  /\ community' = << >>
                  /\ round_num' = 0
                  /\ trades' = << >>
                  /\ quotes' = << >>
                  /\ round_trades' = << >>
                  /\ Finish(s, Registry, nh.players,
                            BroadcastAllStatesOut(Registry, Live, nh.players))
          ELSE /\ k = 1
               /\ Finish(s, Registry, players,
                         BroadcastAllStatesOut(Registry, Live, players))
               /\ UNCHANGED tableVars
    /\ UNCHANGED <<sess, next_pid, events>>

\* action "away" (lines 821-834) from a seated identity
Away(s) ==
    /\ Ready(s)
    /\ sess[s].pid \in DOMAIN players
    /\ events < cap.events
    /\ events' = events + 1
    /\ LET cp == sess[s].pid
           P1 == [players EXCEPT ![cp].status =
                     IF MidHand THEN "pending_away" ELSE "away"]
           R1 == IF MidHand THEN SendPersonalReg(Registry, Live, cp) ELSE Registry
       IN /\ players' = P1
          /\ Finish(s, R1, P1,
                    (IF MidHand
                     THEN SendPersonalOut(Registry, Live, cp, "info", {},
                                          "You will be marked as away after this hand completes.",
                                          NoPid)
                     ELSE {})
                        \cup BroadcastAllStatesOut(R1, Live, P1))
    /\ UNCHANGED <<left_players, seat_order, maker_idx, deck, community,
                   round_num, trades, quotes, round_trades, hand_number,
                   game_history, sess, next_pid>>

\* A join_back test that lets an away player back in any round.
CanJoinBackFromAwayAnytime(st, rn) ==
    st \in {"pending_away", "pending_leaving", "away"}

\* The statuses and rounds in which join_back sets the status to active
\* (lines 841-850).
CanJoinBack(st, rn) ==
    \/ st \in {"pending_away", "pending_leaving"}
    \/ st = "away" /\ rn = 0

\* action "join_back" (lines 836-856)
JoinBack(s) ==
    /\ Ready(s)
    /\ events < cap.events
    /\ events' = events + 1
    /\ LET cp == sess[s].pid
           player_status == players[cp].status
           P1 == [players EXCEPT ![cp].status = "active"]
       IN IF cp \in DOMAIN players /\ CanJoinBack(player_status, round_num)
          THEN /\ players' = P1
               /\ Finish(s, Registry, P1, BroadcastAllStatesOut(Registry, Live, P1))
          ELSE IF cp \in DOMAIN players /\ player_status = "away"
          THEN LET R1 == SendPersonalReg(Registry, Live, cp) IN
               /\ Finish(s, R1, players,
                         SendPersonalOut(Registry, Live, cp, "error", {},
                                         "Cannot rejoin in the middle of a hand. Please wait for the next hand.",
                                         NoPid))
               /\ UNCHANGED players
          ELSE /\ Finish(s, Registry, players, {})
               /\ UNCHANGED players
    /\ UNCHANGED <<left_players, seat_order, maker_idx, deck, community,
                   round_num, trades, quotes, round_trades, hand_number,
                   game_history, sess, next_pid>>

\* action "ping" (lines 858-860)
Ping(s) ==
    /\ Ready(s)
    /\ LET R1 == SendPersonalReg(Registry, Live, sess[s].pid) IN
       Finish(s, R1, players,
              SendPersonalOut(Registry, Live, sess[s].pid, "pong", {}, "", NoPid))
    /\ UNCHANGED <<tableVars, sess, next_pid, events>>

\* ---- specification ----------------------------------------------------------
Minted == 1 .. (next_pid - 1)

Next ==
    \/ \E s \in Sess : \E pid \in {TmpPid(s)} \cup Minted : SessionOpen(s, pid)
    \/ \E s \in Sess : SessionClose(s)
    \/ \E s \in Sess : \E q \in cap.quotes : Quote(s, q[1], q[2])
    \/ \E s \in Sess : \E side \in cap.sides : \E price \in Prices : Trade(s, side, price)
    \/ \E s \in Sess : TradeCheck(s)
    \/ \E s \in Sess : \E k \in 1 .. cap.shuffles : AfterDelay(s, k)
    \/ \E s \in Sess : Leave(s)
    \/ \E s \in Sess : HandlerCrash(s)
    \/ \E s \in Sess : \E n \in cap.names : \E b \in cap.buy_ins : Join(s, n, b)
    \/ \E s \in Sess : \E k \in 1 .. cap.shuffles : JoinStart(s, k)
    \/ \E s \in Sess : Away(s)
    \/ \E s \in Sess : JoinBack(s)
    \/ \E s \in Sess : Ping(s)

Init == InitWith(SpecCap)

Spec == Init /\ [][Next]_vars

InitMsg == InitWith(MsgCap)

SpecMsg == InitMsg /\ [][Next]_vars

InitDeep == InitWith(DeepCap)

SpecDeep == InitDeep /\ [][Next]_vars

\* One session that never joins trades hand after hand.
InitArchive == InitWith(ArchiveCap)

NextArchive ==
    \/ SessionOpen(1, TmpPid(1))
    \/ \E side \in cap.sides : \E price \in Prices : Trade(1, side, price)
    \/ TradeCheck(1)
    \/ \E k \in 1 .. cap.shuffles : AfterDelay(1, k)

SpecArchive == InitArchive /\ [][NextArchive]_vars

\* Sessions join one player after another, and the last one seated may leave.
InitSeats == InitWith(SeatCap)

NextSeats ==
    \/ \E s \in Sess : \E pid \in {TmpPid(s)} \cup Minted : SessionOpen(s, pid)
    \/ \E s \in Sess : \E b \in cap.buy_ins : Join(s, SeatName(next_pid), b)
    \/ \E s \in Sess : \E k \in 1 .. cap.shuffles : JoinStart(s, k)
    \/ \E s \in Sess : Leave(s)

SpecSeats == InitSeats /\ [][NextSeats]_vars

\* Sessions with fresh identities join, trade, go away and leave.
InitRotate == InitWith(RotateCap)

NextRotate ==
    \/ \E s \in Sess : SessionOpen(s, TmpPid(s))
    \/ \E s \in Sess : \E b \in cap.buy_ins : Join(s, SeatName(next_pid), b)
    \/ \E s \in Sess : \E k \in 1 .. cap.shuffles : JoinStart(s, k)
    \/ \E s \in Sess : \E side \in cap.sides : \E price \in Prices : Trade(s, side, price)
    \/ \E s \in Sess : TradeCheck(s)
    \/ \E s \in Sess : \E k \in 1 .. cap.shuffles : AfterDelay(s, k)
    \/ \E s \in Sess : Leave(s)
    \/ \E s \in Sess : Away(s)

SpecRotate == InitRotate /\ [][NextRotate]_vars

\* ---- properties ------------------------------------------------------------
Min(a, b) == IF a < b THEN a ELSE b

\* C1: in every reachable state the number of revealed community cards equals
\* min(round, 3).
C1_CommunityIsMinRound3 == Len(community) = Min(round_num, RevealRounds)

\* A settled hand: round 4 with three community cards.
C1_Witness == round_num = SettleRound /\ Len(community) = RevealRounds

\* C2: the quote log never holds two quotes tagged with the same round, and a
\* step that changes the log of the current hand appends exactly one quote,
\* whose maker is the table's maker before the step and whose round is the
\* current round, while no quote of that round was in the log; so a quote from
\* any other identity, or a second quote in a round, appends nothing.
C2_OneQuotePerRoundByMaker ==
    [][/\ \A i, j \in DOMAIN quotes' :
             i # j => quotes'[i].round # quotes'[j].round
       /\ (quotes' # quotes /\ quotes' # << >>) =>
             /\ Len(quotes') = Len(quotes) + 1
             /\ SubSeq(quotes', 1, Len(quotes)) = quotes
             /\ quotes'[Len(quotes')].maker = maker_pid
             /\ quotes'[Len(quotes')].round = round_num
             /\ \A i \in DOMAIN quotes : quotes[i].round # round_num]_vars

\* The maker has quoted in two rounds and a further quote was just refused.
C2_Witness ==
    /\ Len(quotes) = 2
    /\ \E m \in out :
          m.detail = "You have already set a market price for this round"

\* The step in which settlement runs: the round goes to 4.
SettlementStep == round_num # SettleRound /\ round_num' = SettleRound

\* The sum over the players of the change this step makes to their stack, and
\* to their profit/loss.
StackDeltaSum ==
    LET order == SortedSeq(DOMAIN players)
    IN SeqSum([i \in DOMAIN order |->
                 players'[order[i]].stack - players[order[i]].stack])

PnlDeltaSum ==
    LET order == SortedSeq(DOMAIN players)
    IN SeqSum([i \in DOMAIN order |->
                 players'[order[i]].pnl - players[order[i]].pnl])

\* C4: for every settlement, the changes it makes to the players' stacks sum to
\* zero, and so do the changes to their profit/loss, the maker's aggregate
\* adjustment included.
C4_SettlementZeroSum ==
    [][SettlementStep =>
          /\ DOMAIN players' = DOMAIN players
          /\ StackDeltaSum = 0
          /\ PnlDeltaSum = 0]_vars

\* A settled hand in which money changed hands.
C4_Witness ==
    /\ round_num = SettleRound
    /\ \E p \in DOMAIN players : players[p].pnl > 0
    /\ \E p \in DOMAIN players : players[p].pnl < 0

\* C3: the trade handler advances the round if and only if, right after it
\* recorded the trade, every seated player other than the maker whose status
\* is active, pending_away or pending_leaving was in the traded-this-round set.
C3_AdvanceIffCompleteAtRecord ==
    [][(pc = "trade_sent" /\ pc' # "trade_sent") =>
          ((round_num' = round_num + 1) <=> complete_at_record)]_vars

\* What a trade pays its trader at settlement total t.
TradePnl(tr, t) == IF tr.side = "buy" THEN t - tr.price ELSE tr.price - t

\* The sum of TradePnl over the trades of the log made by the identities in S.
TradePnlSum(S, t) ==
    SeqSum([i \in DOMAIN trades |->
              IF trades[i].pid \in S THEN TradePnl(trades[i], t) ELSE 0])

\* C5: when the round reaches 4, with total the value of the community cards
\* plus the hidden cards of all seated players, every trade of the log changes
\* its trader's stack and profit/loss by total - price (buy) or price - total
\* (sell), the maker's change once by the negated sum of those amounts, and
\* every seated player whose stack is then negative has status eliminated.
C5_SettlementAmounts ==
    [][SettlementStep =>
          LET total == CardSum(community')
                         + SeqSum([i \in DOMAIN SortedSeq(DOMAIN players) |->
                                     CardSum(players[SortedSeq(DOMAIN players)[i]].cards)])
              traders == {trades[i].pid : i \in DOMAIN trades}
              Due(p) == TradePnlSum({p}, total)
                          - (IF p = maker_pid THEN TradePnlSum(traders, total) ELSE 0)
          IN /\ traders \subseteq DOMAIN players
             /\ DOMAIN players' = DOMAIN players
             /\ \A p \in DOMAIN players :
                   /\ players'[p].stack = players[p].stack + Due(p)
                   /\ players'[p].pnl = players[p].pnl + Due(p)
                   /\ players'[p].stack < 0 => players'[p].status = "eliminated"]_vars

\* C6: every snapshot delivered to the transport bound to identity X (personal
\* push, full-state broadcast, snapshot on session open, join_success reply)
\* carries the hidden cards of a seated player only if that player is X.
C6_HiddenCardsOnlyToOwner ==
    \A m \in out : \A p \in m.reveal : p = m.to

\* With two sessions open and two players holding cards, a snapshot carrying
\* its recipient's cards was delivered to an identity minted by a join.
C6_Witness ==
    /\ Cardinality(Live) = 2
    /\ \E m \in out :
          /\ m.type = "state"
          /\ m.to \in Minted
          /\ m.reveal = {m.to}
          /\ Len(players[m.to].cards) = HoleCards
          /\ \E q \in DOMAIN players \ {m.to} : Len(players[q].cards) = HoleCards

\* The reply of a refusing step to identity cp: nothing but errors addressed to
\* cp is delivered, and an error is delivered when cp is bound to an open
\* transport.
RepliesError(cp) ==
    /\ \A m \in out' : m.type = "error" /\ m.to = cp
    /\ (cp \in DOMAIN websockets /\ websockets[cp] \in Live) => out' # {}

\* C7: a trade message from an identity that is in the traded-this-round set
\* is answered with an error and leaves the trade log and the
\* traded-this-round set unchanged; the trade log never holds two entries with
\* the same identity and the same round.
C7_DuplicateTradeRejected ==
    [][/\ \A s \in Sess : \A side \in cap.sides : \A price \in Prices :
             (Trade(s, side, price) /\ InList(round_trades, sess[s].pid)) =>
                 /\ trades' = trades
                 /\ round_trades' = round_trades
                 /\ RepliesError(sess[s].pid)
       /\ \A i, j \in DOMAIN trades' :
             (i # j /\ trades'[i].pid = trades'[j].pid) =>
                 trades'[i].round # trades'[j].round]_vars

\* An identity that traded in the current round was just refused a second trade.
C7_Witness ==
    \E m \in out :
        /\ m.detail = "You have already traded this round"
        /\ InList(round_trades, m.to)
        /\ \E i \in DOMAIN trades :
              trades[i].pid = m.to /\ trades[i].round = round_num

\* C8: a trade message from the identity that is the maker is answered with
\* the error "Market maker cannot trade" and leaves the trade log, the
\* traded-this-round set and the round unchanged; an entry appended to the
\* trade log is never made by the identity that is maker at that moment.
C8_MakerTradeRejected ==
    [][/\ \A s \in Sess : \A side \in cap.sides : \A price \in Prices :
             (Trade(s, side, price) /\ sess[s].pid = maker_pid) =>
                 /\ trades' = trades
                 /\ round_trades' = round_trades
                 /\ round_num' = round_num
                 /\ RepliesError(sess[s].pid)
                 /\ \A m \in out' : m.detail = "Market maker cannot trade"
       /\ Len(trades') = Len(trades) + 1 =>
             trades'[Len(trades')].pid # maker_pid]_vars

\* In a hand with trades in its log the maker was just refused a trade.
C8_Witness ==
    /\ trades # << >>
    /\ \E m \in out :
          m.detail = "Market maker cannot trade" /\ m.to = maker_pid

\* C9: no task changes the table while another task is inside the table's
\* critical section: while the lock is held and its holder stays suspended
\* where it is (at a send or in the delay after settlement), the table's state
\* does not change.
C9_TableFrozenWhileHolderSuspended ==
    [][(lock # 0 /\ lock' = lock /\ pc' = pc) => tableVars' = tableVars]_vars

\* C10: in every reachable state with round > 0, every player in the player
\* map holds exactly 2 hidden cards.
C10_TwoHiddenCardsInRound ==
    round_num > 0 =>
        \A p \in DOMAIN players : Len(players[p].cards) = HoleCards

\* C11: every identity in the traded-this-round set is a seated player, is not
\* the current maker, and has status active, pending_away or pending_leaving.
C11_TradedSetIsRequiredPlayers ==
    \A i \in DOMAIN round_trades :
        /\ round_trades[i] \in DOMAIN players
        /\ round_trades[i] # maker_pid
        /\ players[round_trades[i]].status
               \in {"active", "pending_away", "pending_leaving"}

\* A step in which the session bound to player p sends leave, away or join_back.
OwnStatusRequest(p) ==
    \E s \in Sess : sess[s].pid = p /\ (Leave(s) \/ Away(s) \/ JoinBack(s))

\* Player p is in the departed archive with status left and is gone from the
\* player map and the rotation sequence.
Archived(p) ==
    /\ p \in DOMAIN left_players' /\ left_players'[p].status = "left"
    /\ p \notin DOMAIN players'
    /\ ~InList(seat_order', p)

\* A leave request at round > 0 makes the sender pending_leaving and removes
\* nobody.
LeaveMidHandStep ==
    \A s \in Sess :
        (Leave(s) /\ round_num > 0) =>
            /\ players'[sess[s].pid].status = "pending_leaving"
            /\ DOMAIN players' = DOMAIN players
            /\ seat_order' = seat_order
            /\ left_players' = left_players

\* The new hand that follows a completed hand archives every player who is
\* pending_leaving when it starts.
NewHandArchivesStep ==
    (pc = "settled" /\ hand_number' # hand_number) =>
        \A p \in DOMAIN players :
            players[p].status = "pending_leaving" => Archived(p)

\* C12: a leave request made while round > 0 sets the player's status to
\* pending_leaving and leaves the player map, the rotation sequence and the
\* departed archive unchanged; the player then stays pending_leaving, unless
\* the player sends another status request, until the new hand that follows the
\* hand's completion, which archives the player with status left and removes
\* the player from the player map and the rotation sequence.
C12_PendingLeaveArchivedAtNextHand ==
    [][/\ LeaveMidHandStep
       /\ NewHandArchivesStep
       /\ \A p \in DOMAIN players :
             (players[p].status = "pending_leaving" /\ ~OwnStatusRequest(p)) =>
                 \/ p \in DOMAIN players' /\ players'[p].status = "pending_leaving"
                 \/ pc = "settled" /\ hand_number' # hand_number /\ Archived(p)]_vars

\* The step that ends an accepted join: the handler has seated the new player
\* and sent the join messages, and now makes the auto-start test.
JoinEnds == pc = "join_sent" /\ pc' = "idle"

\* At least two seated players are active, round = 0 and no community card is
\* revealed.
TwoActiveBetweenHands ==
    /\ \E p, q \in DOMAIN players :
          p # q /\ players[p].status = "active" /\ players[q].status = "active"
    /\ round_num = 0
    /\ Len(community) = 0

\* C13: an accepted join starts a new hand exactly when, with the new player
\* seated, at least two seated players are active, round = 0 and no community
\* card is revealed; right after it the hand counter is one higher, every seated
\* player holds exactly 2 hidden cards, round = 0, and the community, the trade
\* log, the quote log and the traded-this-round set are empty.  Otherwise the
\* hand counter and the table are as before.
C13_JoinAutoStartsHand ==
    [][JoinEnds =>
         IF TwoActiveBetweenHands
         THEN /\ hand_number' = hand_number + 1
              /\ \A p \in DOMAIN players' : Len(players'[p].cards) = HoleCards
              /\ round_num' = 0
              /\ community' = << >>
              /\ trades' = << >>
              /\ quotes' = << >>
              /\ round_trades' = << >>
         ELSE /\ hand_number' = hand_number
              /\ tableVars' = tableVars]_vars

\* Two players joined, the second join started hand 1 and dealt both of them 2
\* cards; no hand was played before.
C13_Witness ==
    /\ hand_number = 1
    /\ game_history = << >>
    /\ pc = "idle"
    /\ round_num = 0
    /\ Cardinality(DOMAIN players) = 2
    /\ \A p \in DOMAIN players : Len(players[p].cards) = HoleCards

\* A step in which session s sends one of the messages the handlers refuse.
RejectedMessage(s) ==
    LET cp == sess[s].pid IN
    \/ \E q \in cap.quotes :
          /\ Quote(s, q[1], q[2])
          /\ \/ cp # maker_pid
             \/ \E i \in DOMAIN quotes : quotes[i].round = round_num
             \/ q[2] <= q[1]
    \/ \E side \in cap.sides : \E price \in Prices :
          /\ Trade(s, side, price)
          /\ cp = maker_pid \/ InList(round_trades, cp)
    \/ \E n \in cap.names : \E b \in cap.buy_ins :
          /\ Join(s, n, b)
          /\ \/ Strip(n) = << >>
             \/ Len(Strip(n)) > MaxNameLen
             \/ b < MinBuyIn
             \/ b > MaxBuyIn
             \/ \E p \in DOMAIN players :
                   /\ players[p].status # "left"
                   /\ Lower(players[p].name) = Lower(Strip(n))
             \/ Cardinality({p \in DOMAIN players : players[p].status # "left"})
                   >= MaxSeats
    \/ /\ JoinBack(s)
       /\ cp \in DOMAIN players
       /\ players[cp].status = "away"
       /\ round_num > 0

\* The table and the registry are as before the step.
RejectionKeepsState ==
    /\ tableVars' = tableVars
    /\ websockets' = websockets
    /\ player_table' = player_table

\* The step delivers an error event to the transport of session s and delivers
\* nothing to any other transport.
ErrorToSenderOnly(s) ==
    /\ \E m \in out' : m.type \in {"error", "join_error"} /\ m.ws = s
    /\ \A m \in out' : m.ws = s

\* C14: a rejected message (quote from a non-maker, second quote in a round,
\* quote with ask <= bid, trade from the maker, second trade in a round, join
\* with an empty or over-long name, a buy-in outside 1..10000, a duplicate name
\* or a full table, join_back from away while round > 0) leaves the table and
\* the connection registry unchanged and delivers an error event to the sending
\* session and to no other session.
C14_RejectionErrorToSenderOnly ==
    [][\A s \in Sess :
         RejectedMessage(s) => RejectionKeepsState /\ ErrorToSenderOnly(s)]_vars

\* A step that starts a new hand after a hand with activity: the finished hand
\* is archived.
HandArchived ==
    hand_number' # hand_number /\ (Len(trades) > 0 \/ Len(quotes) > 0)

\* C15: the archive of completed-hand summaries never holds more than
\* max_history_hands (100) entries; a hand archived while the archive is at the
\* cap removes the oldest entry and keeps the order of the others, and below the
\* cap the new entry is appended.
C15_ArchiveCappedFifo ==
    [][/\ Len(game_history') <= max_history_hands
       /\ IF HandArchived
          THEN LET n == Len(game_history) IN
               IF n = max_history_hands
               THEN /\ Len(game_history') = n
                    /\ \A i \in 1 .. (n - 1) : game_history'[i] = game_history[i + 1]
                    /\ game_history'[n].hand_number = hand_number
               ELSE /\ Len(game_history') = n + 1
                    /\ \A i \in 1 .. n : game_history'[i] = game_history[i]
                    /\ game_history'[n + 1].hand_number = hand_number
          ELSE game_history' = game_history]_vars

\* The archive is full and its two oldest records have been evicted.
C15_Witness ==
    /\ Len(game_history) = max_history_hands
    /\ game_history[1].hand_number = 2
    /\ game_history[max_history_hands].hand_number = max_history_hands + 1

\* A join sent while MaxSeats players are seated.
JoinAtFullTable ==
    /\ Cardinality(DOMAIN players) = MaxSeats
    /\ \E s \in Sess : \E b \in cap.buy_ins : Join(s, SeatName(next_pid), b)

\* C16: the table never seats more than 7 players, every seated player's seat
\* number is in 1..7, no two seated players have the same seat number, and a
\* join sent while 7 players are seated seats nobody.
C16_SevenUniqueSeats ==
    [][/\ Cardinality(DOMAIN players') <= MaxSeats
       /\ \A p \in DOMAIN players' : players'[p].seat \in 1 .. MaxSeats
       /\ \A p, q \in DOMAIN players' :
             p # q => players'[p].seat # players'[q].seat
       /\ JoinAtFullTable =>
             tableVars' = tableVars /\ next_pid' = next_pid /\ pc' = pc]_vars

\* Seven players are seated, one of them on a seat that a departed player had,
\* and a further join has just been refused.
C16_Witness ==
    /\ Cardinality(DOMAIN players) = MaxSeats
    /\ \E p \in DOMAIN players : \E q \in DOMAIN left_players :
          players[p].seat = left_players[q].seat
    /\ \E m \in out : m.type = "join_error" /\ m.detail = "Table is full"

\* C17: eliminated is a terminal status: a player whose status is eliminated
\* stays in the player map with status eliminated after every step.
C17_EliminatedIsTerminal ==
    [][\A p \in DOMAIN players :
         players[p].status = "eliminated" =>
             p \in DOMAIN players' /\ players'[p].status = "eliminated"]_vars

\* C18: when a session opens with the identity of a seated player, the
\* player's last-seen marker is cleared and the status becomes active, unless
\* the status is away or pending_leaving, which stays as it is.
C18_ReconnectKeepsAwayAndPendingLeaving ==
    [][\A s \in Sess : \A pid \in DOMAIN players :
         SessionOpen(s, pid) =>
             /\ players'[pid].last_seen = NoTime
             /\ players'[pid].status =
                    IF players[pid].status \in {"away", "pending_leaving"}
                    THEN players[pid].status ELSE "active"]_vars

\* The step in which the transport of session s closes at receive_json.
Closes(s) == sess[s].st = "open" /\ sess'[s].st = "closed"

\* C19: on session close the transport binding and the table binding of the
\* session's identity are removed, the other bindings stay, and the table is
\* unchanged except that a seated identity's last-seen time is stamped: the
\* player stays in the player map and the rotation sequence with its status,
\* stack, profit/loss and hidden cards.
C19_CloseStampsLastSeenOnly ==
    [][\A s \in Sess :
         Closes(s) =>
             LET cp == sess[s].pid IN
             /\ cp \notin DOMAIN websockets'
             /\ cp \notin DOMAIN player_table'
             /\ websockets' = Restrict(websockets, DOMAIN websockets \ {cp})
             /\ player_table' = Restrict(player_table, DOMAIN player_table \ {cp})
             /\ DOMAIN players' = DOMAIN players
             /\ \A p \in DOMAIN players :
                   players'[p] = IF p = cp
                                 THEN [players[p] EXCEPT !.last_seen = LoopTime]
                                 ELSE players[p]
             /\ <<left_players, seat_order, maker_idx, deck, community,
                  round_num, trades, quotes, round_trades, hand_number,
                  game_history>>' =
                <<left_players, seat_order, maker_idx, deck, community,
                  round_num, trades, quotes, round_trades, hand_number,
                  game_history>>]_vars

\* A player who holds two cards has closed its session: the last-seen time is
\* stamped and the identity has no binding.
C19_Witness ==
    \E p \in DOMAIN players :
        /\ players[p].last_seen = LoopTime
        /\ Len(players[p].cards) = HoleCards
        /\ p \notin DOMAIN websockets
        /\ InList(seat_order, p)

\* C20: an away request sets status pending_away when round > 0 or the quote
\* log is non-empty, and otherwise sets status away at once; a leave request
\* sets status pending_leaving and removes nobody under the same condition, and
\* otherwise at once moves the player to the departed archive with status left
\* and removes the player from the player map and the rotation sequence.
C20_AwayAndLeaveByMidHand ==
    [][\A s \in Sess :
         LET cp == sess[s].pid
             mid == round_num > 0 \/ Len(quotes) > 0
         IN /\ Away(s) =>
                 players'[cp].status = IF mid THEN "pending_away" ELSE "away"
            /\ Leave(s) =>
                 IF mid
                 THEN /\ DOMAIN players' = DOMAIN players
                      /\ players'[cp].status = "pending_leaving"
                      /\ seat_order' = seat_order
                      /\ left_players' = left_players
                 ELSE Archived(cp)]_vars

\* Before any hand was dealt one player has left at once and another, who
\* asked to go away after a quote, is pending_away.
C20_Witness ==
    /\ hand_number = 0
    /\ round_num = 0
    /\ \E q \in DOMAIN left_players : left_players[q].status = "left"
    /\ \E p \in DOMAIN players : players[p].status = "pending_away"

\* A step that runs start-new-hand.
StartsNewHand == hand_number' # hand_number

\* The identities in the list start-new-hand returns.
ReturnedLeaving ==
    LET l == NewHand(players, left_players, seat_order, maker_idx, 1).leaving_players
    IN [pids |-> {l[i].pid : i \in DOMAIN l}, len |-> Len(l)]

\* C21: start-new-hand changes every pending_away player to away and moves
\* every pending_leaving player to the departed archive with status left, so
\* right after it no seated player is pending_away or pending_leaving; the
\* list it returns names exactly the players it archived, each once.
C21_NewHandResolvesPending ==
    [][StartsNewHand =>
         /\ \A p \in DOMAIN players :
               /\ players[p].status = "pending_away" =>
                     p \in DOMAIN players' /\ players'[p].status = "away"
               /\ players[p].status = "pending_leaving" => Archived(p)
               /\ players[p].status # "pending_leaving" => p \in DOMAIN players'
         /\ \A p \in DOMAIN players' :
               players'[p].status \notin {"pending_away", "pending_leaving"}
         /\ ReturnedLeaving.pids = DOMAIN left_players' \ DOMAIN left_players
         /\ ReturnedLeaving.pids = DOMAIN players \ DOMAIN players'
         /\ ReturnedLeaving.len = Cardinality(ReturnedLeaving.pids)]_vars

\* The second hand has started after a settled one and was dealt to one player
\* only, who is away; the other player took part in the settlement and is in
\* the departed archive, so start-new-hand archived that player.
C21_Witness ==
    /\ hand_number = DeepHands
    /\ Len(game_history) = 1
    /\ game_history[1].final_total \in Int
    /\ round_num = 0
    /\ trades = << >>
    /\ Len(deck) = DeckSize - HoleCards
    /\ \E p \in DOMAIN players :
          players[p].status = "away" /\ Len(players[p].cards) = HoleCards
    /\ \E q \in DOMAIN left_players :
          left_players[q].status = "left" /\ left_players[q].pnl # 0

\* C22: join_back sets status active from pending_away or pending_leaving in
\* any round and from away only when round = 0; join_back from away while
\* round > 0 changes no status; and no step other than the player's own
\* join_back changes an away player's status to active.
C22_JoinBackTransitions ==
    [][/\ \A s \in Sess :
            (JoinBack(s) /\ sess[s].pid \in DOMAIN players) =>
                LET cp == sess[s].pid
                    st == players[cp].status
                IN /\ DOMAIN players' = DOMAIN players
                   /\ st \in {"pending_away", "pending_leaving"} =>
                         players'[cp].status = "active"
                   /\ (st = "away" /\ round_num = 0) =>
                         players'[cp].status = "active"
                   /\ (st = "away" /\ round_num > 0) => players' = players
                   /\ \A p \in DOMAIN players \ {cp} : players'[p] = players[p]
       /\ \A p \in DOMAIN players \cap DOMAIN players' :
            (players[p].status = "away" /\ players'[p].status = "active") =>
                \E s \in Sess : sess[s].pid = p /\ JoinBack(s)]_vars

\* An away player has asked to come back while round > 0 and got the refusal.
C22_Witness ==
    /\ round_num > 0
    /\ \E m \in out :
          /\ m.type = "error"
          /\ m.detail = "Cannot rejoin in the middle of a hand. Please wait for the next hand."
          /\ m.to \in DOMAIN players
          /\ players[m.to].status = "away"

\* Some player's stack or profit/loss changes in the step.
BalancesChange ==
    \E p \in DOMAIN players \cap DOMAIN players' :
        players'[p].stack # players[p].stack \/ players'[p].pnl # players[p].pnl

Successor(so, pid, seated) ==
    LET n == Len(so)
        i == CHOOSE j \in 1 .. n : so[j] = pid
        At(k) == so[((i - 1 + k) % n) + 1]
        ks == {k \in 1 .. n : At(k) \in seated}
    IN IF ks = {} THEN NoPid
       ELSE At(CHOOSE k \in ks : \A l \in ks : k <= l)

\* C24: the new hand that follows a settlement has as its maker the identity
\* that follows the settled hand's maker in the rotation sequence, circularly,
\* among the identities still seated when the new hand starts.
C24_NextMakerIsSuccessor ==
    [][(pc = "settled" /\ hand_number' # hand_number /\ maker_pid # NoPid) =>
         maker_pid' = Successor(seat_order, maker_pid, DOMAIN players')]_vars

\* C25: between one start of a new hand and the next, the identity that is the
\* table's maker does not change, whatever messages are handled in between.
C25_MakerFixedWithinHand ==
    [][(hand_number >= 1 /\ hand_number' = hand_number) =>
         maker_pid' = maker_pid]_vars

\* The types of the payloads sent with broadcast_table.
EventTypes == {"quote", "trade", "round", "hand_complete", "player_event"}

\* The identities bound to the table in the registry whose transport is open.
BoundLive ==
    {q \in DOMAIN websockets \cap DOMAIN player_table :
        player_table[q] = TID /\ websockets[q] \in Live}

\* C26: an event broadcast (quote, trade, round, hand_complete, player_event)
\* delivers the same payload to every session whose identity is bound to the
\* table in the connection registry, whether or not that identity is seated.
C26_EventReachesEveryBound ==
    \A m \in out :
        m.type \in EventTypes =>
            \A q \in BoundLive :
                Msg(m.type, q, websockets[q], m.reveal, m.detail, m.about) \in out

\* The bound identities whose transport is not open: a send to them fails.
FailingTargets == {q \in DOMAIN websockets : websockets[q] \notin Live}

\* C27: whenever a send to a transport fails, the identity's transport binding
\* and table binding are both removed and the player map is unchanged.  An
\* away message ends with a full-state broadcast to every bound identity
\* (lines 833-834), so after it no identity with a failing transport is bound,
\* and the same players are seated.
C27_FailedSendUnbinds ==
    [][(\E s \in Sess : Away(s)) =>
         /\ DOMAIN players' = DOMAIN players
         /\ \A q \in FailingTargets :
               q \notin DOMAIN websockets' /\ q \notin DOMAIN player_table']_vars

\* The hidden cards of the players seated before the step are the same after it.
OthersKeepCards ==
    \A p \in DOMAIN players :
        p \in DOMAIN players' /\ players'[p].cards = players[p].cards

\* C28: an accepted join made mid-hand (round > 0 or quote log non-empty) does
\* not start a new hand: the round, the community cards, the hand counter, the
\* trade log, the quote log and the other players' hidden cards are unchanged
\* by the rest of the join handler.
C28_MidHandJoinStartsNoHand ==
    [][(pc = "join_sent" /\ MidHand /\ lock' = 0) =>
         /\ UNCHANGED <<round_num, community, hand_number, trades, quotes>>
         /\ OthersKeepCards]_vars

\* C29: the rotation sequence lists each seated identity exactly once and
\* nothing else, no identity is both in the player map and in the departed
\* archive, and whenever the rotation sequence is non-empty the maker index is
\* within its bounds, so that the maker is a seated player.
C29_RotationMatchesSeated ==
    /\ {seat_order[i] : i \in DOMAIN seat_order} = DOMAIN players
    /\ Len(seat_order) = Cardinality(DOMAIN players)
    /\ DOMAIN players \cap DOMAIN left_players = {}
    /\ seat_order # << >> =>
          /\ maker_idx \in 0 .. (Len(seat_order) - 1)
          /\ maker_pid \in DOMAIN players

C29_Witness ==
    /\ hand_number >= 2
    /\ 1 \in DOMAIN left_players
    /\ seat_order = <<2, 3>>
    /\ maker_idx = 1

\* C30: in every state in which the table is not mid-hand (round = 0 and the
\* quote log is empty), no seated player has status pending_away or
\* pending_leaving.
C30_NoPendingBetweenHands ==
    ~MidHand =>
        \A p \in DOMAIN players :
            players[p].status \notin {"pending_away", "pending_leaving"}

C30_Witness ==
    /\ ~MidHand
    /\ hand_number = DeepHands
    /\ \E p \in DOMAIN left_players : \E q \in DOMAIN players :
          /\ Len(players[q].cards) = HoleCards
          /\ left_players[p].cards = players[q].cards
          /\ left_players[p].pnl # 0

\* Identity pid is bound to the transport of an open session other than s that
\* was opened for the same identity.
NewerSessionBound(s, pid) ==
    /\ pid \in DOMAIN websockets
    /\ websockets[pid] # s
    /\ sess[websockets[pid]] = [st |-> "open", pid |-> pid]

\* C31: when a second session has opened for an identity that already has a
\* live session, the close of the older session leaves the newer session's
\* transport binding and table binding in the connection registry.
C31_OlderCloseKeepsNewerBinding ==
    [][\A s \in Sess :
         (Closes(s) /\ NewerSessionBound(s, sess[s].pid)) =>
             LET cp == sess[s].pid IN
             /\ cp \in DOMAIN websockets'
             /\ websockets'[cp] = websockets[cp]
             /\ cp \in DOMAIN player_table'
             /\ player_table'[cp] = TID]_vars

====
